---- MODULE Spec2Model ----
(***************************************************************************)
(* gobm65: Beurer BM65 blood pressure monitor reader.                      *)
(*                                                                         *)
(* The module models three parts of the program:                           *)
(*   - mergeItems (chronological merge with de-duplication),               *)
(*   - fetchData / getData (the serial request/response exchange),         *)
(*   - the filters of main.                                                *)
(* Each part has its own specification over the same variables; the        *)
(* variables of the other parts stay at their idle values.                 *)
(***************************************************************************)
EXTENDS Integers, Sequences, FiniteSets, TLC

VARIABLES
    \* mergeItems
    mpc,        \* "call": before the call, "merged": mergeItems has returned,
                \* "again": its result has been merged once more, "idle"
    argNew,     \* newItems as the caller passed it
    argOld,     \* oldItems as the caller passed it
    newItems,   \* the caller's newItems slice (sorted in place by mergeItems)
    oldItems,   \* the caller's oldItems slice (sorted in place by mergeItems)
    result,     \* the slice mergeItems returned
    result2     \* mergeItems(result, []measurement{})

VARIABLES
    \* fetchData
    pc,         \* where fetchData stands: "open", "hsWrite", "hsRead",
                \* "descWrite", "descRead", "countWrite", "countRead",
                \* "recWrite", "recRead", "finish"; "returned" once it has
                \* returned, "exited" once log.Fatal has ended the process,
                \* "idle"
    port,       \* the serial port: "none", "open", "closed"
    closes,     \* number of calls of s.Close()
    writes,     \* the byte strings handed to s.Write, in order
    rx,         \* bytes the device has sent and the program has not read
    buf,        \* the 128 byte read buffer
    t,          \* getData: bytes read so far by the current call
    size,       \* getData: the size asked for by the current call (0 before)
    lastN,      \* getData: n of the latest s.Read of the current call (-1
                \* before the first)
    items,      \* the measurements decoded so far
    nRecords,   \* the count the device reported
    i,          \* index of the records loop
    retItems,   \* the collection fetchData returned
    retErr,     \* the error fetchData returned ("nil": none)
    hsByte,     \* buf[0] when the handshake read returned (-1 before)
    sent,       \* the record responses the device has sent, in order
    wellFormed, \* every response so far had the length the program asks for
    ioError     \* the channel failure that occurred: "none", "read", "write"

VARIABLES
    \* the filters of main
    fpc,        \* where main stands: "fromDate", "toDate", "filtered" (the
                \* date filters are done), "timed" (the time-of-day filter
                \* is done), "limited" (the limit is applied), "idle"
    loaded,     \* items as read, before any filter
    mainItems,  \* main's items
    startDate,  \* parseDate(*fromDate)
    endDate,    \* parseDate(*toDate)
    fromTime,   \* --from-time: whether it is given, and startTime
    toTime,     \* --to-time: whether it is given, and endTime
    limit,      \* *limit
    dated,      \* items when the date filters were done
    timed       \* items when the time-of-day filter was done

\* the statistics functions, called on one collection
VARIABLES
    spc,        \* "stats" while the functions are called, else "idle"
    statItems,  \* the items handed to the functions
    avgRes,     \* what average returned: [val, err]
    medRes,     \* what median returned
    devRes,     \* what stdDeviation returned
    aadRes      \* what avgAbsoluteDeviation returned

\* WHOClass, called on one measurement
VARIABLES
    cpc,        \* "call" before WHOClass, "classified" after it, else "idle"
    who,        \* the measurement m
    whoRes      \* what WHOClass returned: [class, flag]

\* loadFromJSONFiles
VARIABLES
    lpc,        \* "load" in the loop over the files, "returned", else "idle"
    filenames,  \* the files named: for each its name ("" or not) and the
                \* records json.Unmarshal reads from it
    fileIx,     \* the loop over filenames: files gone through
    loadItems,  \* the items accumulated
    loadErr     \* the error returned ("nil": none)

\* displayWHOClassStats, called on one collection
VARIABLES
    dpc,        \* "call" before displayWHOClassStats, "displayed" after it,
                \* "panicked" when it ended in a run-time panic, else "idle"
    whoItems,   \* the items handed to it
    avgIndex,   \* int(0.5+avg), the index into WHOPressureClassification
    avgLabel    \* the classification printed ("" before)

mergeVars == <<mpc, argNew, argOld, newItems, oldItems, result, result2>>
fetchVars == <<pc, port, closes, writes, rx, buf, t, size, lastN, items,
               nRecords, i, retItems, retErr, hsByte, sent, wellFormed,
               ioError>>
filterVars == <<fpc, loaded, mainItems, startDate, endDate, fromTime, toTime,
                limit, dated, timed>>
statVars == <<spc, statItems, avgRes, medRes, devRes, aadRes>>
classVars == <<cpc, who, whoRes>>
loadVars == <<lpc, filenames, fileIx, loadItems, loadErr>>
displayVars == <<dpc, whoItems, avgIndex, avgLabel>>
vars == <<mergeVars, fetchVars, filterVars, statVars, classVars, loadVars,
          displayVars>>

\* ------------------------------------------------------------------------
\* Bounds of the model
\* ------------------------------------------------------------------------

\* longest collection handed to mergeItems as newItems, and longest
\* collection main filters
MaxLen == 3

\* longest collection handed to mergeItems as oldItems
MaxOldLen == 2

\* largest record count the device reports
MaxRecords == 2

\* largest value of --limit
MaxLimit == 2

\* ------------------------------------------------------------------------
\* Data model
\* ------------------------------------------------------------------------

\* Record responses of the device (9 bytes each) the model draws from:
\* header, systolic-25, diastolic-25, pulse, month, day, hour, minute,
\* year-2000.  The first two differ only in the systolic byte (same
\* timestamp); the third is later by year although every other date field
\* is smaller; the fourth is earlier by month.
Responses ==
    { <<0, 95, 55, 60, 12, 31, 23, 59, 16>>,
      <<0, 105, 55, 60, 12, 31, 23, 59, 16>>,
      <<0, 95, 55, 60, 1, 1, 0, 0, 17>>,
      <<0, 95, 55, 60, 6, 15, 8, 30, 16>> }

\* decoding that takes the hour from the minute byte and the minute from the
\* hour byte
decodeSwapped(b) ==
    [ Header    |-> b[1],
      Systolic  |-> b[2] + 25,
      Diastolic |-> b[3] + 25,
      Pulse     |-> b[4],
      Month     |-> b[5],
      Day       |-> b[6],
      Hour      |-> b[8],
      Minute    |-> b[7],
      Year      |-> b[9] + 2000 ]

\* positional decoding of one 9-byte record response (0-based buf[k] is b[k+1])
decode(b) ==
    [ Header    |-> b[1],
      Systolic  |-> b[2] + 25,
      Diastolic |-> b[3] + 25,
      Pulse     |-> b[4],
      Month     |-> b[5],
      Day       |-> b[6],
      Hour      |-> b[7],
      Minute    |-> b[8],
      Year      |-> b[9] + 2000 ]

\* the measurements of the model
measurement == { decode(r) : r \in Responses }

\* all sequences over S of length at most n
SeqsUpTo(S, n) == UNION { [1..k -> S] : k \in 0..n }

\* ------------------------------------------------------------------------
\* mergeItems
\* ------------------------------------------------------------------------

\* isLater with the year left out of the comparison
isLaterNoYear(mi, mj) ==
    CASE mi.Month < mj.Month   -> FALSE
      [] mi.Month > mj.Month   -> TRUE
      [] mi.Day < mj.Day       -> FALSE
      [] mi.Day > mj.Day       -> TRUE
      [] mi.Hour < mj.Hour     -> FALSE
      [] mi.Hour > mj.Hour     -> TRUE
      [] mi.Minute < mj.Minute -> FALSE
      [] OTHER                 -> TRUE

\* isLater returns true if mi's date is later or equal to mj's date
isLater(mi, mj) ==
    CASE mi.Year < mj.Year     -> FALSE
      [] mi.Year > mj.Year     -> TRUE
      [] mi.Month < mj.Month   -> FALSE
      [] mi.Month > mj.Month   -> TRUE
      [] mi.Day < mj.Day       -> FALSE
      [] mi.Day > mj.Day       -> TRUE
      [] mi.Hour < mj.Hour     -> FALSE
      [] mi.Hour > mj.Hour     -> TRUE
      [] mi.Minute < mj.Minute -> FALSE
      [] OTHER                 -> TRUE

\* the permutations of 1..n
Perms(n) == { p \in [1..n -> 1..n] : \A ix, j \in 1..n : p[ix] = p[j] => ix = j }

\* sort.Slice(items, less) with less(i, j) = isLater(items[i], items[j]).
\* sort.Slice is not stable and less is not a strict ordering (it holds both
\* ways between two records of one timestamp), so the order among records of
\* one timestamp is whatever the sort implementation leaves: every
\* arrangement of the slice in which each element isLater than its successor
\* is a possible outcome.
sortSlice(s) ==
    { [ix \in 1..Len(s) |-> s[p[ix]]] : p \in
        { q \in Perms(Len(s)) :
            \A ix \in 1..(Len(s) - 1) : isLater(s[q[ix]], s[q[ix + 1]]) } }

\* A slice: the elements seen through it, the identity of its backing array
\* (0 is nil) and its capacity.
nilSlice == [elems |-> <<>>, arr |-> 0, cap |-> 0]

\* identities of the backing arrays of the caller's newItems and oldItems
ArrNew == 1
ArrOld == 2

\* append grows a slice in place while the capacity allows it and moves it
\* to a newly allocated array otherwise (the capacity at least doubles)
growSlice(l, elems) ==
    IF Len(elems) <= l.cap
    THEN [elems |-> elems, arr |-> l.arr, cap |-> l.cap]
    ELSE [elems |-> elems,
          arr   |-> (IF l.arr > ArrOld THEN l.arr ELSE ArrOld) + 1,
          cap   |-> IF Len(elems) > 2 * l.cap THEN Len(elems) ELSE 2 * l.cap]

\* the loop of insertIfMissing taking any record of m's minute for m
RECURSIVE scanItemsSameMinute(_, _, _)
scanItemsSameMinute(l, m, k) ==
    IF k > Len(l) THEN [stop |-> "end", ix |-> Len(l)]
    ELSE IF ~isLater(l[k], m) THEN [stop |-> "break", ix |-> k]
    ELSE IF isLater(m, l[k]) THEN [stop |-> "duplicate", ix |-> k]
    ELSE scanItemsSameMinute(l, m, k + 1)

\* the loop of insertIfMissing from index k on: where it stops and why
RECURSIVE scanItems(_, _, _)
scanItems(l, m, k) ==
    IF k > Len(l) THEN [stop |-> "end", ix |-> Len(l)]
    ELSE IF ~isLater(l[k], m) THEN [stop |-> "break", ix |-> k]
    ELSE IF l[k] = m THEN [stop |-> "duplicate", ix |-> k]
    ELSE scanItems(l, m, k + 1)

\* insertIfMissing inserts a measurement into a sorted slice
insertIfMissing(l, m) ==
    LET r == scanItems(l.elems, m, 1)
        n == Len(l.elems)
    IN  CASE r.stop = "duplicate" -> l
          [] r.stop = "end" /\ n > 0 -> growSlice(l, Append(l.elems, m))
          [] r.stop = "end" /\ n = 0 -> growSlice(l, <<m>>)
          [] r.stop = "break" ->
                growSlice(l, SubSeq(l.elems, 1, r.ix - 1) \o <<m>>
                                \o SubSeq(l.elems, r.ix, n))

\* for _, item := range its { result = insertIfMissing(result, item) }
RECURSIVE insertAll(_, _, _)
insertAll(l, its, k) ==
    IF k > Len(its) THEN l
    ELSE insertAll(insertIfMissing(l, its[k]), its, k + 1)

\* result := newItems[:0], the result built in the storage of newItems
resultInitReuse(sortedNew) ==
    [elems |-> <<>>, arr |-> ArrNew, cap |-> Len(sortedNew)]

\* var result []measurement
resultInit(sortedNew) == nilSlice

\* a merge that inserts the old items before the new ones
mergeSortedOldFirst(sortedNew, sortedOld) ==
    insertAll(insertAll(resultInit(sortedNew), sortedOld, 1), sortedNew, 1)

\* the result of mergeItems once both arguments have been sorted
mergeSorted(sortedNew, sortedOld) ==
    insertAll(insertAll(resultInit(sortedNew), sortedNew, 1), sortedOld, 1)

\* every result mergeItems(newItems, oldItems) can return
mergeItems(new, old) ==
    { mergeSorted(sn, so).elems : sn \in sortSlice(new), so \in sortSlice(old) }

\* the zero time.Time, which parseDate returns for an empty string
ZeroTime ==
    [zero |-> TRUE, Year |-> 1, Month |-> 1, Day |-> 1, Hour |-> 0,
     Minute |-> 0, Second |-> 0]

\* the simpleTime of a flag that is not given (the empty string)
NoTime == [given |-> FALSE, hour |-> 0, minute |-> 0]

\* main is not filtering
FilterIdle ==
    /\ fpc = "idle"
    /\ loaded = <<>> /\ mainItems = <<>>
    /\ startDate = ZeroTime /\ endDate = ZeroTime
    /\ fromTime = NoTime /\ toTime = NoTime
    /\ limit = 0 /\ dated = <<>> /\ timed = <<>>

\* var avgMeasure measurement: the zero value
zeroMeasurement ==
    [ Header |-> 0, Systolic |-> 0, Diastolic |-> 0, Pulse |-> 0, Month |-> 0,
      Day |-> 0, Hour |-> 0, Minute |-> 0, Year |-> 0 ]

\* the result variable of a function that is not called yet
notCalled == [val |-> zeroMeasurement, err |-> "not called"]

\* the statistics functions are not called
StatsIdle ==
    /\ spc = "idle"
    /\ statItems = <<>>
    /\ avgRes = notCalled /\ medRes = notCalled
    /\ devRes = notCalled /\ aadRes = notCalled

\* the result variable of WHOClass before it is called
notClassified == [class |-> -1, flag |-> -1]

\* WHOClass is not called
ClassIdle ==
    /\ cpc = "idle"
    /\ who = zeroMeasurement
    /\ whoRes = notClassified

\* loadFromJSONFiles is not called
LoadIdle ==
    /\ lpc = "idle"
    /\ filenames = <<>> /\ fileIx = 0
    /\ loadItems = <<>> /\ loadErr = "nil"

\* displayWHOClassStats is not called
DisplayIdle ==
    /\ dpc = "idle"
    /\ whoItems = <<>>
    /\ avgIndex = -1 /\ avgLabel = ""

\* mergeItems is not running
MergeIdle ==
    /\ mpc = "idle"
    /\ argNew = <<>> /\ argOld = <<>>
    /\ newItems = <<>> /\ oldItems = <<>>
    /\ result = nilSlice /\ result2 = <<>>

\* ------------------------------------------------------------------------
\* fetchData and getData
\* ------------------------------------------------------------------------

\* buf := make([]byte, 128)
BufSize == 128
\* sizes of the responses getData is asked for
HandshakeSize == 1
DescSize == 32
CountSize == 1
RecordSize == 9
\* request and acknowledgement bytes
ReqHandshake == 170
AckHandshake == 85
ReqDesc == 164
ReqCount == 162
ReqRecord == 163

Min(a, b) == IF a < b THEN a ELSE b

\* what the device may answer to the handshake: the acknowledgement or
\* another byte
HandshakeResponses == { <<AckHandshake>>, <<0>> }

\* the device description, 32 bytes that are only logged
DescResponse == [j \in 1..DescSize |-> 65]

\* what the device may answer to the count request: the count, alone or
\* followed by a byte the program did not ask for
CountResponses ==
    { <<c>> : c \in 0..MaxRecords } \cup { <<c, 0>> : c \in 0..MaxRecords }

FetchIdle ==
    /\ pc = "idle" /\ port = "none" /\ closes = 0
    /\ writes = <<>> /\ rx = <<>>
    /\ buf = [j \in 1..BufSize |-> 0]
    /\ t = 0 /\ size = 0 /\ lastN = -1
    /\ items = <<>> /\ nRecords = 0 /\ i = 0
    /\ retItems = <<>> /\ retErr = "nil"
    /\ hsByte = -1 /\ sent = <<>> /\ wellFormed = TRUE /\ ioError = "none"

\* return items, err
return(its, e) ==
    /\ pc' = "returned"
    /\ retItems' = its
    /\ retErr' = e

\* s, err = serial.OpenPort(c)
OpenPort ==
    /\ pc = "open"
    /\ \/ /\ port' = "open"
          /\ pc' = "hsWrite"
          /\ UNCHANGED <<retItems, retErr>>
       \/ /\ return(items, "open failed")
          /\ UNCHANGED port
    /\ UNCHANGED <<closes, writes, rx, buf, t, size, lastN, items, nRecords,
                   i, hsByte, sent, wellFormed, ioError>>
    /\ UNCHANGED <<mergeVars, filterVars, statVars, classVars,
                   loadVars, displayVars>>

\* the size handed to the getData that follows the write at a place
sizeAfter(at) ==
    CASE at = "hsWrite" -> HandshakeSize
      [] at = "descWrite" -> DescSize
      [] at = "countWrite" -> CountSize
      [] at = "recWrite" -> RecordSize

\* n, err = s.Write(q): the request goes out and the device queues one of
\* its responses, or the write fails and fetchData returns the error
write(at, q, responses, next) ==
    /\ pc = at
    /\ writes' = Append(writes, q)
    /\ \/ /\ \E r \in responses :
                /\ rx' = rx \o r
                /\ sent' = IF at = "recWrite" THEN Append(sent, r) ELSE sent
                /\ wellFormed' = (wellFormed /\ Len(r) = sizeAfter(at))
          /\ pc' = next
          /\ t' = 0
          /\ size' = sizeAfter(at)
          /\ lastN' = -1
          /\ UNCHANGED <<retItems, retErr, ioError>>
       \/ /\ return(items, "write failed")
          /\ ioError' = "write"
          /\ UNCHANGED <<rx, sent, wellFormed, t, size, lastN>>
    /\ UNCHANGED <<port, closes, buf, items, nRecords, i, hsByte>>
    /\ UNCHANGED <<mergeVars, filterVars, statVars, classVars,
                   loadVars, displayVars>>

\* one s.Read(b[t:]) of getData that delivers the next k waiting bytes, or
\* none of them (k = 0) without an error
read(k) ==
    /\ buf' = [j \in 1..BufSize |-> IF t < j /\ j <= t + k THEN rx[j - t] ELSE buf[j]]
    /\ rx' = SubSeq(rx, k + 1, Len(rx))
    /\ lastN' = k
    /\ t' = t + k
    /\ UNCHANGED size

\* one s.Read of getData that fails: log.Fatal(err) ends the process
readFails(at) ==
    /\ pc = at
    /\ pc' = "exited"
    /\ ioError' = "read"
    /\ UNCHANGED <<port, closes, writes, rx, buf, t, size, lastN, items,
                   nRecords, i, retItems, retErr, hsByte, sent, wellFormed>>
    /\ UNCHANGED <<mergeVars, filterVars, statVars, classVars,
                   loadVars, displayVars>>

\* the acknowledgement test of the handshake on n, buf[0] accepting any byte
handshakeOKAnyByte(n, b0) == n = 1

\* if n == 1 && buf[0] == '\x55'
handshakeOK(n, b0) == n = 1 /\ b0 = AckHandshake

\* s.Write("\xaa")
HandshakeWrite == write("hsWrite", <<ReqHandshake>>, HandshakeResponses, "hsRead")

\* getData(s, buf, 1) and the test of the acknowledgement
HandshakeRead ==
    \/ /\ pc = "hsRead"
       /\ \E k \in 0..Min(Len(rx), BufSize - t) :
            /\ read(k)
            /\ IF t' < HandshakeSize
               THEN UNCHANGED <<pc, port, closes, retItems, retErr, hsByte>>
               ELSE /\ hsByte' = buf'[1]
                    /\ IF handshakeOK(t', buf'[1])
                       THEN /\ pc' = "descWrite"
                            /\ UNCHANGED <<port, closes, retItems, retErr>>
                       ELSE /\ port' = "closed"
                            /\ closes' = closes + 1
                            /\ return(items, "handshake failed")
       /\ UNCHANGED <<writes, items, nRecords, i, sent, wellFormed, ioError>>
       /\ UNCHANGED <<mergeVars, filterVars, statVars, classVars,
                   loadVars, displayVars>>
    \/ readFails("hsRead")

\* s.Write("\xa4")
DescWrite == write("descWrite", <<ReqDesc>>, {DescResponse}, "descRead")

\* getData(s, buf, 32); the description is only logged
DescRead ==
    \/ /\ pc = "descRead"
       /\ \E k \in 0..Min(Len(rx), BufSize - t) :
            /\ read(k)
            /\ pc' = IF t' < DescSize THEN pc ELSE "countWrite"
       /\ UNCHANGED <<port, closes, writes, items, nRecords, i, retItems,
                      retErr, hsByte, sent, wellFormed, ioError>>
       /\ UNCHANGED <<mergeVars, filterVars, statVars, classVars,
                   loadVars, displayVars>>
    \/ readFails("descRead")

\* s.Write("\xa2")
CountWrite == write("countWrite", <<ReqCount>>, CountResponses, "countRead")

\* getData(s, buf, 1) and the decoding of the count
CountRead ==
    \/ /\ pc = "countRead"
       /\ \E k \in 0..Min(Len(rx), BufSize - t) :
            /\ read(k)
            /\ IF t' < CountSize
               THEN UNCHANGED <<pc, nRecords, i, retItems, retErr>>
               ELSE IF t' = 1
                    THEN /\ nRecords' = buf'[1]
                         /\ i' = 0
                         /\ pc' = IF 0 < buf'[1] THEN "recWrite" ELSE "finish"
                         /\ UNCHANGED <<retItems, retErr>>
                    ELSE /\ return(items, "no measurement found")
                         /\ UNCHANGED <<nRecords, i>>
       /\ UNCHANGED <<port, closes, writes, items, hsByte, sent, wellFormed,
                      ioError>>
       /\ UNCHANGED <<mergeVars, filterVars, statVars, classVars,
                   loadVars, displayVars>>
    \/ readFails("countRead")

\* a request that numbers the records from 0
recordRequestFromZero(ix) == <<ReqRecord, ix % 256>>

\* q = []byte{'\xa3', uint8(i + 1)}
recordRequest(ix) == <<ReqRecord, (ix + 1) % 256>>

\* s.Write(q) of the records loop
RecordWrite == write("recWrite", recordRequest(i), Responses, "recRead")

\* getData(s, buf, 9), the decoding of the record and the loop step
RecordRead ==
    \/ /\ pc = "recRead"
       /\ \E k \in 0..Min(Len(rx), BufSize - t) :
            /\ read(k)
            /\ IF t' < RecordSize
               THEN UNCHANGED <<pc, items, i>>
               ELSE /\ items' = Append(items, decode(SubSeq(buf', 1, RecordSize)))
                    /\ i' = i + 1
                    /\ pc' = IF i + 1 < nRecords THEN "recWrite" ELSE "finish"
       /\ UNCHANGED <<port, closes, writes, nRecords, retItems, retErr,
                      hsByte, sent, wellFormed, ioError>>
       /\ UNCHANGED <<mergeVars, filterVars, statVars, classVars,
                   loadVars, displayVars>>
    \/ readFails("recRead")

\* s.Close(); return mergeItems(items, []measurement{}), nil
Finish ==
    /\ pc = "finish"
    /\ port' = "closed"
    /\ closes' = closes + 1
    /\ \E r \in mergeItems(items, <<>>) : return(r, "nil")
    /\ UNCHANGED <<writes, rx, buf, t, size, lastN, items, nRecords, i,
                   hsByte, sent, wellFormed, ioError>>
    /\ UNCHANGED <<mergeVars, filterVars, statVars, classVars,
                   loadVars, displayVars>>

InitFetch ==
    /\ MergeIdle
    /\ FilterIdle
    /\ StatsIdle
    /\ ClassIdle
    /\ LoadIdle
    /\ DisplayIdle
    /\ pc = "open" /\ port = "none" /\ closes = 0
    /\ writes = <<>> /\ rx = <<>>
    /\ buf = [j \in 1..BufSize |-> 0]
    /\ t = 0 /\ size = 0 /\ lastN = -1
    /\ items = <<>> /\ nRecords = 0 /\ i = 0
    /\ retItems = <<>> /\ retErr = "nil"
    /\ hsByte = -1 /\ sent = <<>> /\ wellFormed = TRUE /\ ioError = "none"

NextFetch ==
    \/ OpenPort
    \/ HandshakeWrite \/ HandshakeRead
    \/ DescWrite \/ DescRead
    \/ CountWrite \/ CountRead
    \/ RecordWrite \/ RecordRead
    \/ Finish

SpecFetch == InitFetch /\ [][NextFetch]_vars

\* ------------------------------------------------------------------------
\* The filters of main
\* ------------------------------------------------------------------------

\* t.IsZero()
IsZero(d) == d.zero

\* days from 1 January of year 1 to the first day of year y
daysBeforeYear(y) ==
    365 * (y - 1) + ((y - 1) \div 4) - ((y - 1) \div 100) + ((y - 1) \div 400)

isLeap(y) == y % 4 = 0 /\ (y % 100 # 0 \/ y % 400 = 0)

\* days from 1 January to the first day of month mo (1..12) of a common year
daysBefore(mo) == <<0, 31, 59, 90, 120, 151, 181, 212, 243, 273, 304, 334>>[mo]

\* time.Date(y, mo, d, h, mi, sec, 0, time.Local): a month beyond December is
\* carried into the year, the other fields simply add up.  The value is the
\* number of seconds since 1 January 2000 in a zone of fixed offset (only
\* differences of times are used).
timeDate(y, mo, d, h, mi, sec) ==
    LET yy  == y + ((mo - 1) \div 12)
        mm  == ((mo - 1) % 12) + 1
        day == daysBeforeYear(yy) - daysBeforeYear(2000) + daysBefore(mm)
                 + (IF isLeap(yy) /\ mm >= 3 THEN 1 ELSE 0) + (d - 1)
    IN  ((day * 24 + h) * 60 + mi) * 60 + sec

\* iDate of a record: time.Date(Year, Month, Day, Hour, Minute, 0, 0, Local)
iDate(m) == timeDate(m.Year, m.Month, m.Day, m.Hour, m.Minute, 0)

\* the time of a date parseDate returned: time.Date(yy, mm, dd, h, m, s, ...)
parsedTime(d) == timeDate(d.Year, d.Month, d.Day, d.Hour, d.Minute, d.Second)

\* a.Sub(b), in seconds
Sub(a, b) == a - b

\* the date parseDate returns for the given fields
parseDate(yy, mm, dd, h, m, sec) ==
    [zero |-> FALSE, Year |-> yy, Month |-> mm, Day |-> dd, Hour |-> h,
     Minute |-> m, Second |-> sec]

\* the dates --from-date and --to-date are given: none, a date before every
\* record, the minute of two records, thirty seconds into it, a date between
\* the records and a date after all of them
Dates ==
    { ZeroTime,
      parseDate(2016, 1, 1, 0, 0, 0),
      parseDate(2016, 12, 31, 23, 59, 0),
      parseDate(2016, 12, 31, 23, 59, 30),
      parseDate(2016, 7, 1, 0, 0, 0),
      parseDate(2018, 1, 1, 0, 0, 0) }

\* the collections main can hold when the filters start: those mergeItems
\* returns (fetchData and loadFromJSONFiles both end in mergeItems)
Collections ==
    { c \in SeqsUpTo(measurement, MaxLen) : c \in mergeItems(c, <<>>) }

\* the from-date loop from index k on: items = items[0:i] at the first
\* record before startDate
RECURSIVE fromDateLoop(_, _, _)
fromDateLoop(its, start, k) ==
    IF k > Len(its) THEN its
    ELSE IF Sub(iDate(its[k]), parsedTime(start)) < 0 THEN SubSeq(its, 1, k - 1)
    ELSE fromDateLoop(its, start, k + 1)

\* the to-date loop from index k on: items = items[i:] at the first record
\* not after endDate
RECURSIVE toDateLoop(_, _, _)
toDateLoop(its, end, k) ==
    IF k > Len(its) THEN its
    ELSE IF Sub(iDate(its[k]), parsedTime(end)) <= 0 THEN SubSeq(its, k, Len(its))
    ELSE toDateLoop(its, end, k + 1)

\* if !startDate.IsZero() { ... }
FilterFromDate ==
    /\ fpc = "fromDate"
    /\ mainItems' = IF IsZero(startDate) THEN mainItems
                    ELSE fromDateLoop(mainItems, startDate, 1)
    /\ fpc' = "toDate"
    /\ UNCHANGED <<loaded, startDate, endDate, fromTime, toTime, limit, dated,
                   timed>>
    /\ UNCHANGED <<mergeVars, fetchVars, statVars, classVars,
                   loadVars, displayVars>>

\* if !endDate.IsZero() { ... }
FilterToDate ==
    /\ fpc = "toDate"
    /\ mainItems' = IF IsZero(endDate) THEN mainItems
                    ELSE toDateLoop(mainItems, endDate, 1)
    /\ fpc' = "filtered"
    /\ dated' = mainItems'
    /\ UNCHANGED <<loaded, startDate, endDate, fromTime, toTime, limit, timed>>
    /\ UNCHANGED <<mergeVars, fetchVars, statVars, classVars,
                   loadVars, displayVars>>

\* parseTime(timeStr) of a flag that is given
parseTime(h, m) == [given |-> TRUE, hour |-> h, minute |-> m]

\* the values of --from-time and --to-time: not given, 08:00, the time of a
\* record (08:30), 21:00 and the time of two other records (23:59)
Times ==
    { NoTime, parseTime(8, 0), parseTime(8, 30), parseTime(21, 0),
      parseTime(23, 59) }

\* compare looking at the hours only
compareHours(m, st) ==
    IF m.Hour < st.hour THEN -1
    ELSE IF m.Hour > st.hour THEN 1
    ELSE 0

\* compare of the time-of-day filter
compare(m, st) ==
    IF m.Hour * 60 + m.Minute < st.hour * 60 + st.minute THEN -1
    ELSE IF m.Hour * 60 + m.Minute > st.hour * 60 + st.minute THEN 1
    ELSE 0

\* inv: both times are given and the start is after the end
inv(ft, tt) ==
    /\ ft.given /\ tt.given
    /\ ft.hour * 60 + ft.minute > tt.hour * 60 + tt.minute

\* the body of the time-of-day loop: whether data is appended to newItems
keepsTime(data, ft, tt) ==
    IF inv(ft, tt)
    THEN ~(compare(data, ft) = -1 /\ compare(data, tt) = 1)
    ELSE /\ ~(ft.given /\ compare(data, ft) = -1)
         /\ ~(tt.given /\ compare(data, tt) = 1)

\* the time-of-day loop from index k on, appending to newItems
RECURSIVE timeLoop(_, _, _, _, _)
timeLoop(its, ft, tt, k, new) ==
    IF k > Len(its) THEN new
    ELSE timeLoop(its, ft, tt, k + 1,
                  IF keepsTime(its[k], ft, tt) THEN Append(new, its[k]) ELSE new)

\* if *fromTime != "" || *toTime != "" { ... }
FilterTime ==
    /\ fpc = "filtered"
    /\ mainItems' = IF fromTime.given \/ toTime.given
                    THEN timeLoop(mainItems, fromTime, toTime, 1, <<>>)
                    ELSE mainItems
    /\ timed' = mainItems'
    /\ fpc' = "timed"
    /\ UNCHANGED <<loaded, startDate, endDate, fromTime, toTime, limit, dated>>
    /\ UNCHANGED <<mergeVars, fetchVars, statVars, classVars,
                   loadVars, displayVars>>

\* the last *limit items instead of the first
lastItems(its, lim) == SubSeq(its, Len(its) - lim + 1, Len(its))

\* items[0:*limit]
firstItems(its, lim) == SubSeq(its, 1, lim)

\* if *limit > 0 && len(items) > int(*limit) { items = items[0:*limit] }
Limit ==
    /\ fpc = "timed"
    /\ mainItems' = IF limit > 0 /\ Len(mainItems) > limit
                    THEN firstItems(mainItems, limit)
                    ELSE mainItems
    /\ fpc' = "limited"
    /\ UNCHANGED <<loaded, startDate, endDate, fromTime, toTime, limit, dated,
                   timed>>
    /\ UNCHANGED <<mergeVars, fetchVars, statVars, classVars,
                   loadVars, displayVars>>

InitFilter ==
    /\ MergeIdle
    /\ FetchIdle
    /\ StatsIdle
    /\ ClassIdle
    /\ LoadIdle
    /\ DisplayIdle
    /\ fpc = "fromDate"
    /\ loaded \in Collections
    /\ mainItems = loaded
    /\ startDate \in Dates
    /\ endDate \in Dates
    /\ fromTime \in Times
    /\ toTime \in Times
    /\ limit \in 0..MaxLimit
    /\ dated = <<>>
    /\ timed = <<>>

NextFilter == FilterFromDate \/ FilterToDate \/ FilterTime \/ Limit

SpecFilter == InitFilter /\ [][NextFilter]_vars

\* ------------------------------------------------------------------------
\* Specification of mergeItems: the arguments are drawn from the bounded
\* collections, mergeItems is applied, and its result is merged once more
\* against an empty collection.
\* ------------------------------------------------------------------------

InitMerge ==
    /\ FetchIdle
    /\ FilterIdle
    /\ StatsIdle
    /\ ClassIdle
    /\ LoadIdle
    /\ DisplayIdle
    /\ mpc = "call"
    /\ argNew \in SeqsUpTo(measurement, MaxLen)
    /\ argOld \in SeqsUpTo(measurement, MaxOldLen)
    /\ newItems = argNew
    /\ oldItems = argOld
    /\ result = nilSlice
    /\ result2 = <<>>

\* result = mergeItems(newItems, oldItems)
MergeItems ==
    /\ mpc = "call"
    /\ \E sn \in sortSlice(newItems), so \in sortSlice(oldItems) :
          /\ newItems' = sn
          /\ oldItems' = so
          /\ result' = mergeSorted(sn, so)
    /\ mpc' = "merged"
    /\ UNCHANGED <<argNew, argOld, result2>>
    /\ UNCHANGED <<fetchVars, filterVars, statVars, classVars,
                   loadVars, displayVars>>

\* result2 = mergeItems(result, []measurement{})
MergeAgain ==
    /\ mpc = "merged"
    /\ result2' \in mergeItems(result.elems, <<>>)
    /\ mpc' = "again"
    /\ UNCHANGED <<argNew, argOld, newItems, oldItems, result>>
    /\ UNCHANGED <<fetchVars, filterVars, statVars, classVars,
                   loadVars, displayVars>>

NextMerge == MergeItems \/ MergeAgain

SpecMerge == InitMerge /\ [][NextMerge]_vars

\* ------------------------------------------------------------------------
\* loadFromJSONFiles
\* ------------------------------------------------------------------------

\* most file names in the list
MaxFiles == 3

\* an empty name between two separators
NoName == [name |-> "", records |-> <<>>, readable |-> TRUE]

\* a file that loadFromJSONFile reads the records from
file(records) == [name |-> "f", records |-> records, readable |-> TRUE]

\* a file that ioutil.ReadFile or json.Unmarshal fails on
Unreadable == [name |-> "f", records |-> <<>>, readable |-> FALSE]

\* the records stored in the files: two of one minute (31 Dec 2016 23:59),
\* one of 1 Jan 2017 and one of 15 Jun 2016; files hold them in any order
\* and more than once
FileRecords ==
    LET a == decode(<<0, 95, 55, 60, 12, 31, 23, 59, 16>>)
        b == decode(<<0, 105, 55, 60, 12, 31, 23, 59, 16>>)
        c == decode(<<0, 95, 55, 60, 1, 1, 0, 0, 17>>)
        d == decode(<<0, 95, 55, 60, 6, 15, 8, 30, 16>>)
    IN  { <<>>, <<a>>, <<b, a>>, <<d, c, a>>, <<c, d, c>> }

\* what a name of the list may stand for
Files == {NoName, Unreadable} \cup { file(r) : r \in FileRecords }

\* the records put behind the items
foldStepAppend(records, its) == { its \o records }

\* items = mergeItems(records, items): every outcome
foldStep(records, its) == mergeItems(records, its)

\* one pass of the loop over filenames
LoadFile ==
    /\ lpc = "load"
    /\ fileIx < Len(filenames)
    /\ LET f == filenames[fileIx + 1]
       IN  IF f.name = ""
           THEN /\ fileIx' = fileIx + 1
                /\ UNCHANGED <<lpc, loadItems, loadErr>>
           ELSE IF ~f.readable
           THEN /\ lpc' = "returned"
                /\ loadErr' = "load failed"
                /\ UNCHANGED <<fileIx, loadItems>>
           ELSE /\ loadItems' \in foldStep(f.records, loadItems)
                /\ fileIx' = fileIx + 1
                /\ UNCHANGED <<lpc, loadErr>>
    /\ UNCHANGED filenames
    /\ UNCHANGED <<mergeVars, fetchVars, filterVars, statVars, classVars,
                   displayVars>>

\* return, after the last file
LoadReturn ==
    /\ lpc = "load"
    /\ fileIx = Len(filenames)
    /\ lpc' = "returned"
    /\ UNCHANGED <<filenames, fileIx, loadItems, loadErr>>
    /\ UNCHANGED <<mergeVars, fetchVars, filterVars, statVars, classVars,
                   displayVars>>

InitLoad ==
    /\ MergeIdle
    /\ FetchIdle
    /\ FilterIdle
    /\ StatsIdle
    /\ ClassIdle
    /\ DisplayIdle
    /\ lpc = "load"
    /\ filenames \in SeqsUpTo(Files, MaxFiles)
    /\ fileIx = 0
    /\ loadItems = <<>>
    /\ loadErr = "nil"

NextLoad == LoadFile \/ LoadReturn

SpecLoad == InitLoad /\ [][NextLoad]_vars

\* ------------------------------------------------------------------------
\* average, median, stdDeviation, avgAbsoluteDeviation
\* ------------------------------------------------------------------------

\* longest collection handed to the statistics functions
MaxStat == 4

\* the systolic, diastolic and pulse values of the records
Readings ==
    { <<120, 80, 60>>, <<130, 90, 70>>, <<110, 95, 61>>, <<140, 70, 75>> }

\* the record of a reading, k minutes after midnight of 1 Jan 2016
reading(v, k) ==
    [ Header |-> 0, Systolic |-> v[1], Diastolic |-> v[2], Pulse |-> v[3],
      Month |-> 1, Day |-> 1, Hour |-> 0, Minute |-> k, Year |-> 2016 ]

\* the collections main hands to the functions: latest record first
StatCollections ==
    { [k \in 1..Len(v) |-> reading(v[k], Len(v) - k)] :
          v \in SeqsUpTo(Readings, MaxStat) }

\* the fields the functions work on
StatFields == {"Systolic", "Diastolic", "Pulse"}

\* the conversion of a quotient to int, and Go's integer division: towards 0
quo(a, b) == IF a >= 0 THEN a \div b ELSE -((-a) \div b)

\* avgMeasure.X += data.X over the items from index k on
RECURSIVE sumField(_, _, _)
sumField(its, f, k) ==
    IF k > Len(its) THEN 0 ELSE its[k][f] + sumField(its, f, k + 1)

\* a division that drops the fraction instead of rounding
truncDivision(a, b) == quo(a, b)

\* roundDivision: int(0.5 + float64(a)/float64(b))
roundDivision(a, b) == quo(2 * a + b, 2 * b)

\* average
average(its) ==
    IF Len(its) = 0
    THEN [val |-> zeroMeasurement, err |-> "cannot compute average: empty set"]
    ELSE [val |-> [zeroMeasurement EXCEPT
                     !.Systolic = roundDivision(sumField(its, "Systolic", 1), Len(its)),
                     !.Diastolic = roundDivision(sumField(its, "Diastolic", 1), Len(its)),
                     !.Pulse = roundDivision(sumField(its, "Pulse", 1), Len(its))],
          err |-> "nil"]

\* sys = append(sys, data.Systolic) over the items
fieldOf(its, f) == [k \in 1..Len(its) |-> its[k][f]]

\* x put into the ascending numbers
insertInt(numbers, x) ==
    LET k == Cardinality({ j \in 1..Len(numbers) : numbers[j] <= x })
    IN  SubSeq(numbers, 1, k) \o <<x>> \o SubSeq(numbers, k + 1, Len(numbers))

\* sort.Ints
RECURSIVE sortInts(_)
sortInts(numbers) ==
    IF numbers = <<>> THEN <<>>
    ELSE insertInt(sortInts(Tail(numbers)), Head(numbers))

\* the upper middle number alone
upperMedian(numbers) == numbers[Len(numbers) \div 2 + 1]

\* intMedian
intMedian(numbers) ==
    LET middle == Len(numbers) \div 2
        med    == numbers[middle + 1]
    IN  IF Len(numbers) % 2 = 0 THEN quo(med + numbers[middle], 2) ELSE med

\* median
median(its) ==
    IF Len(its) = 0
    THEN [val |-> zeroMeasurement, err |-> "cannot compute average: empty set"]
    ELSE [val |-> [zeroMeasurement EXCEPT
                     !.Systolic = intMedian(sortInts(fieldOf(its, "Systolic"))),
                     !.Diastolic = intMedian(sortInts(fieldOf(its, "Diastolic"))),
                     !.Pulse = intMedian(sortInts(fieldOf(its, "Pulse")))],
          err |-> "nil"]

\* a guard that lets one record through
setEmpty(its) == Len(its) = 0

\* len(items) <= 1
setTooSmall(its) == Len(its) <= 1

\* sumX += math.Pow(float64(data.X-avg.X), 2) over the items from index k on
RECURSIVE sumSquares(_, _, _, _)
sumSquares(its, f, avg, k) ==
    IF k > Len(its) THEN 0
    ELSE (its[k][f] - avg[f]) * (its[k][f] - avg[f])
             + sumSquares(its, f, avg, k + 1)

\* int(math.Sqrt(num / den)): the largest r from r0 on with r * r <= num / den
RECURSIVE intSqrt(_, _, _)
intSqrt(num, den, r0) ==
    IF (r0 + 1) * (r0 + 1) * den > num THEN r0 ELSE intSqrt(num, den, r0 + 1)

\* stdDeviation with the sums divided by d
deviationOver(its, d) ==
    IF setTooSmall(its)
    THEN [val |-> zeroMeasurement,
          err |-> "cannot compute deviation: set too small"]
    ELSE LET avg == average(its)
         IN  IF avg.err # "nil" THEN [val |-> zeroMeasurement, err |-> avg.err]
             ELSE [val |-> [zeroMeasurement EXCEPT
                     !.Systolic = intSqrt(sumSquares(its, "Systolic", avg.val, 1), d, 0),
                     !.Diastolic = intSqrt(sumSquares(its, "Diastolic", avg.val, 1), d, 0),
                     !.Pulse = intSqrt(sumSquares(its, "Pulse", avg.val, 1), d, 0)],
                   err |-> "nil"]

\* the sample deviation: the sums divided by one less than the count
sampleDeviation(its) == deviationOver(its, Len(its) - 1)

\* stdDeviation: the sums divided by float64(len(items))
stdDeviation(its) == deviationOver(its, Len(its))

\* math.Abs(float64(x))
abs(x) == IF x < 0 THEN -x ELSE x

\* sumX += math.Abs(float64(data.X - avg.X)) over the items from index k on
RECURSIVE sumAbs(_, _, _, _)
sumAbs(its, f, avg, k) ==
    IF k > Len(its) THEN 0
    ELSE abs(its[k][f] - avg[f]) + sumAbs(its, f, avg, k + 1)

\* avgAbsoluteDeviation
avgAbsoluteDeviation(its) ==
    IF setTooSmall(its)
    THEN [val |-> zeroMeasurement,
          err |-> "cannot compute deviation: set too small"]
    ELSE LET avg == average(its)
         IN  IF avg.err # "nil" THEN [val |-> zeroMeasurement, err |-> avg.err]
             ELSE [val |-> [zeroMeasurement EXCEPT
                     !.Systolic = quo(sumAbs(its, "Systolic", avg.val, 1), Len(its)),
                     !.Diastolic = quo(sumAbs(its, "Diastolic", avg.val, 1), Len(its)),
                     !.Pulse = quo(sumAbs(its, "Pulse", avg.val, 1), Len(its))],
                   err |-> "nil"]

\* avgMeasure, err := average(items)
Average ==
    /\ spc = "stats" /\ avgRes = notCalled
    /\ avgRes' = average(statItems)
    /\ UNCHANGED <<spc, statItems, medRes, devRes, aadRes>>
    /\ UNCHANGED <<mergeVars, fetchVars, filterVars, classVars,
                   loadVars, displayVars>>

\* m, err := median(items)
Median ==
    /\ spc = "stats" /\ medRes = notCalled
    /\ medRes' = median(statItems)
    /\ UNCHANGED <<spc, statItems, avgRes, devRes, aadRes>>
    /\ UNCHANGED <<mergeVars, fetchVars, filterVars, classVars,
                   loadVars, displayVars>>

\* d, err := stdDeviation(items)
StdDeviation ==
    /\ spc = "stats" /\ devRes = notCalled
    /\ devRes' = stdDeviation(statItems)
    /\ UNCHANGED <<spc, statItems, avgRes, medRes, aadRes>>
    /\ UNCHANGED <<mergeVars, fetchVars, filterVars, classVars,
                   loadVars, displayVars>>

\* d, err = avgAbsoluteDeviation(items)
AvgAbsoluteDeviation ==
    /\ spc = "stats" /\ aadRes = notCalled
    /\ aadRes' = avgAbsoluteDeviation(statItems)
    /\ UNCHANGED <<spc, statItems, avgRes, medRes, devRes>>
    /\ UNCHANGED <<mergeVars, fetchVars, filterVars, classVars,
                   loadVars, displayVars>>

InitStats ==
    /\ MergeIdle
    /\ FetchIdle
    /\ FilterIdle
    /\ ClassIdle
    /\ LoadIdle
    /\ DisplayIdle
    /\ spc = "stats"
    /\ statItems \in StatCollections
    /\ avgRes = notCalled /\ medRes = notCalled
    /\ devRes = notCalled /\ aadRes = notCalled

NextStats == Average \/ Median \/ StdDeviation \/ AvgAbsoluteDeviation

SpecStats == InitStats /\ [][NextStats]_vars

\* ------------------------------------------------------------------------
\* WHOClass
\* ------------------------------------------------------------------------

\* the World Health Organization blood pressure classification
BPOptimal == 0
BPNormal == 1
BPHighNormal == 2
BPMildHypertension == 3
BPModerateHypertension == 4
BPSevereHypertension == 5

\* the special case beside the classification
IsolatedSystolicHypertension == 1

WHOPressureClassification ==
    << "Optimal", "Normal", "High-Normal", "Mild Hypertension",
       "Moderate Hypertension", "Severe Hypertension" >>

\* a case that looks at the systolic value only
whoCaseSystolic(m, sys, dia) == m.Systolic < sys

\* a case that one low value alone satisfies
whoCaseEither(m, sys, dia) == m.Systolic < sys \/ m.Diastolic < dia

\* case m.Systolic < sys && m.Diastolic < dia
whoCase(m, sys, dia) == m.Systolic < sys /\ m.Diastolic < dia

\* a test that takes 130 for the systolic limit
isolatedSystolicFrom130(m) == m.Systolic >= 130 /\ m.Diastolic < 90

\* if m.Systolic >= 140 && m.Diastolic < 90
isolatedSystolic(m) == m.Systolic >= 140 /\ m.Diastolic < 90

\* WHOClass
WHOClass(m) ==
    LET flag == IF isolatedSystolic(m)
                THEN IsolatedSystolicHypertension ELSE 0
    IN  IF whoCase(m, 120, 80) THEN [class |-> BPOptimal, flag |-> flag]
        ELSE IF whoCase(m, 130, 85) THEN [class |-> BPNormal, flag |-> flag]
        ELSE IF whoCase(m, 140, 90) THEN [class |-> BPHighNormal, flag |-> flag]
        ELSE IF whoCase(m, 160, 100)
             THEN [class |-> BPMildHypertension, flag |-> flag]
        ELSE IF whoCase(m, 180, 110)
             THEN [class |-> BPModerateHypertension, flag |-> flag]
        ELSE [class |-> BPSevereHypertension, flag |-> flag]

\* the systolic and diastolic values of the measurements classified: both
\* sides of every threshold
SystolicValues == {100, 119, 120, 129, 130, 139, 140, 145, 159, 160, 179, 180, 200}
DiastolicValues == {60, 79, 80, 84, 85, 89, 90, 99, 100, 109, 110, 120}

\* class, flag := m.WHOClass()
Classify ==
    /\ cpc = "call"
    /\ whoRes' = WHOClass(who)
    /\ cpc' = "classified"
    /\ UNCHANGED who
    /\ UNCHANGED <<mergeVars, fetchVars, filterVars, statVars, loadVars,
                   displayVars>>

InitClass ==
    /\ MergeIdle
    /\ FetchIdle
    /\ FilterIdle
    /\ StatsIdle
    /\ LoadIdle
    /\ DisplayIdle
    /\ cpc = "call"
    /\ \E sys \in SystolicValues, dia \in DiastolicValues :
           who = [zeroMeasurement EXCEPT !.Systolic = sys, !.Diastolic = dia]
    /\ whoRes = notClassified

NextClass == Classify

SpecClass == InitClass /\ [][NextClass]_vars

\* ------------------------------------------------------------------------
\* displayWHOClassStats
\* ------------------------------------------------------------------------

\* longest collection handed to displayWHOClassStats
MaxWho == 3

\* the readings of the records classified: Optimal, High-Normal, Mild with
\* the flag, Severe with the flag and Severe without it
WhoReadings ==
    { <<115, 75, 60>>, <<135, 85, 60>>, <<145, 85, 60>>, <<200, 80, 60>>,
      <<185, 115, 60>> }

\* the collections main hands to displayWHOClassStats: not empty, latest
\* record first
WhoCollections ==
    { [k \in 1..Len(v) |-> reading(v[k], Len(v) - k)] :
          v \in SeqsUpTo(WhoReadings, MaxWho) \ {<<>>} }

\* sum, counted in halves, over the items from index k on: sum +=
\* float64(s), and sum += 0.5 with the flag
RECURSIVE sumHalves(_, _)
sumHalves(its, k) ==
    IF k > Len(its) THEN 0
    ELSE 2 * WHOClass(its[k]).class
           + (IF WHOClass(its[k]).flag = IsolatedSystolicHypertension
              THEN 1 ELSE 0)
           + sumHalves(its, k + 1)

\* int(0.5+avg) with avg = sum / float64(len(items))
avgClassIndex(its) == quo(sumHalves(its, 1) + Len(its), 2 * Len(its))

\* displayWHOClassStats(items): WHOPressureClassification[int(0.5+avg)] is
\* printed, or the index is out of range and the program panics
DisplayWHOClassStats ==
    /\ dpc = "call"
    /\ avgIndex' = avgClassIndex(whoItems)
    /\ IF avgIndex' < Len(WHOPressureClassification)
       THEN /\ avgLabel' = WHOPressureClassification[avgIndex' + 1]
            /\ dpc' = "displayed"
       ELSE /\ dpc' = "panicked"
            /\ UNCHANGED avgLabel
    /\ UNCHANGED whoItems
    /\ UNCHANGED <<mergeVars, fetchVars, filterVars, statVars, classVars,
                   loadVars>>

InitDisplay ==
    /\ MergeIdle
    /\ FetchIdle
    /\ FilterIdle
    /\ StatsIdle
    /\ ClassIdle
    /\ LoadIdle
    /\ dpc = "call"
    /\ whoItems \in WhoCollections
    /\ avgIndex = -1
    /\ avgLabel = ""

NextDisplay == DisplayWHOClassStats

SpecDisplay == InitDisplay /\ [][NextDisplay]_vars

\* ------------------------------------------------------------------------
\* Properties of mergeItems
\* ------------------------------------------------------------------------

\* the timestamp of a measurement as one number, most significant field first
TimeKey(m) ==
    ((((m.Year - 2000) * 13 + m.Month) * 32 + m.Day) * 24 + m.Hour) * 60
        + m.Minute

Range(s) == { s[ix] : ix \in 1..Len(s) }

NoDuplicates(s) == \A ix, j \in 1..Len(s) : s[ix] = s[j] => ix = j

Descending(s) == \A ix \in 1..(Len(s) - 1) : TimeKey(s[ix]) >= TimeKey(s[ix + 1])

Occurrences(s, m) == Cardinality({ ix \in 1..Len(s) : s[ix] = m })

SameElements(s, u) ==
    \A m \in measurement : Occurrences(s, m) = Occurrences(u, m)

Returned == mpc \in {"merged", "again"}

\* C1: whatever the order and the duplicates of the two arguments, the list
\* mergeItems returns holds no two equal measurements and each element's
\* timestamp is later than or equal to that of the element after it.
C1_MergeSortedNoDuplicates ==
    Returned => NoDuplicates(result.elems) /\ Descending(result.elems)

\* C1 witness: mergeItems has returned three or more records, two of them of
\* one timestamp, from a newItems that was out of order and held a record
\* twice.
C1_Witness ==
    /\ mpc = "merged"
    /\ ~Descending(argNew)
    /\ ~NoDuplicates(argNew)
    /\ Len(result.elems) >= 3
    /\ \E ix \in 1..(Len(result.elems) - 1) :
          TimeKey(result.elems[ix]) = TimeKey(result.elems[ix + 1])

\* C2: mergeItems neither drops nor invents a record: the elements of the
\* result are exactly those of the two arguments, and its length is the
\* number of distinct records among them.
C2_MergeKeepsEveryRecord ==
    Returned =>
        /\ Range(result.elems) = Range(argNew) \cup Range(argOld)
        /\ Len(result.elems) = Cardinality(Range(argNew) \cup Range(argOld))
        /\ argOld = <<>> => Len(result.elems) = Cardinality(Range(argNew))

\* C2 witness: two records of one timestamp and different systolic values
\* are both kept, one coming from each argument, while a repeated record
\* has been dropped.
C2_Witness ==
    /\ mpc = "merged"
    /\ \E a \in Range(argNew), b \in Range(argOld) :
          a # b /\ TimeKey(a) = TimeKey(b)
    /\ Len(result.elems) < Len(argNew) + Len(argOld)
    /\ Len(result.elems) >= 3

\* C3: merging the result of mergeItems once more against an empty
\* collection gives the same sequence again.
C3_MergeIdempotent ==
    mpc = "again" => result2 = result.elems

\* C9 as stated: after mergeItems returns, both arguments hold the same
\* elements in the same order as before and the result shares no storage
\* with them.
C9_ArgumentsUntouched ==
    mpc = "merged" =>
        /\ newItems = argNew
        /\ oldItems = argOld
        /\ result.arr \notin {ArrNew, ArrOld}

\* C9 amended: mergeItems sorts both arguments in place, so after it
\* returns each argument holds the same records as before, each as often as
\* before, arranged in descending chronological order; the result lives in
\* storage of its own.
C9_ArgumentsSortedInPlace ==
    mpc = "merged" =>
        /\ SameElements(newItems, argNew) /\ Descending(newItems)
        /\ SameElements(oldItems, argOld) /\ Descending(oldItems)
        /\ result.arr \notin {ArrNew, ArrOld}

\* C9 witness: both arguments were reordered by the call and the result was
\* allocated.
C9_Witness ==
    /\ mpc = "merged"
    /\ newItems # argNew
    /\ oldItems # argOld
    /\ result.arr > ArrOld

\* ------------------------------------------------------------------------
\* Properties of fetchData
\* ------------------------------------------------------------------------

Ended == pc \in {"returned", "exited"}

\* the decoding of a record response as the protocol description gives it
RecordOf(r) ==
    [ Header |-> r[1], Systolic |-> r[2] + 25, Diastolic |-> r[3] + 25,
      Pulse |-> r[4], Month |-> r[5], Day |-> r[6], Hour |-> r[7],
      Minute |-> r[8], Year |-> r[9] + 2000 ]

\* fetchData returned without error after responses of the right lengths
FetchSucceeded == pc = "returned" /\ retErr = "nil" /\ wellFormed

\* C4: when the byte read back after the handshake sentinel is not 0x55,
\* fetchData returns the handshake-failed error and 0xAA stays the only
\* write on the channel.
C4_HandshakeMismatchStops ==
    (hsByte # -1 /\ hsByte # AckHandshake) =>
        /\ pc = "returned"
        /\ retErr = "handshake failed"
        /\ writes = << <<ReqHandshake>> >>

\* C4 witness: the device answered the handshake with the byte 0 and
\* fetchData has returned.
C4_Witness == hsByte = 0 /\ pc = "returned" /\ Len(writes) = 1

\* C5 as stated: after a count N and N well-formed record responses
\* fetchData returns exactly N measurements, the positional decodings of the
\* responses, in descending chronological order.
C5_ReturnsExactlyN ==
    FetchSucceeded =>
        /\ Len(retItems) = nRecords
        /\ Range(retItems) = { RecordOf(r) : r \in Range(sent) }
        /\ Descending(retItems)

\* C5 amended: after a count N and N well-formed record responses fetchData
\* returns, in descending chronological order, the positional decoding of
\* every response once: N measurements when the N responses differ from one
\* another, fewer when the device sends the same nine bytes again.
C5_ReturnsDistinctRecords ==
    FetchSucceeded =>
        /\ Len(sent) = nRecords
        /\ Range(retItems) = { RecordOf(r) : r \in Range(sent) }
        /\ NoDuplicates(retItems)
        /\ Len(retItems) = Cardinality(Range(sent))
        /\ NoDuplicates(sent) => Len(retItems) = nRecords
        /\ Descending(retItems)

\* C5 witness: two different records came in ascending order and were
\* returned latest first.
C5_Witness ==
    /\ FetchSucceeded
    /\ nRecords = 2
    /\ Len(retItems) = 2
    /\ retItems # items
    /\ TimeKey(retItems[1]) > TimeKey(retItems[2])

\* C6: once the port has been opened, every way out of fetchData leaves it
\* closed by exactly one call of Close.
C6_ClosedOnEveryExit ==
    (Ended /\ port # "none") => (closes = 1 /\ port = "closed")

\* C7: when fetchData returns an error, the collection it returns holds no
\* measurement.
C7_NoPartialData ==
    (pc = "returned" /\ retErr # "nil") => retItems = <<>>

\* C8: every read or write error of the channel reaches the caller of
\* fetchData as the error fetchData returns.
C8_ErrorsReturned ==
    ioError # "none" => (pc = "returned" /\ retErr # "nil")

\* C17: when the read of the count phase yields zero bytes, fetchData
\* returns the no-measurement-found error.
C17_ZeroBytesFail ==
    (Len(writes) = 3 /\ size = CountSize /\ lastN = 0) =>
        (pc = "returned" /\ retErr = "no measurement found")

\* the k-th write of a run: 0xAA, 0xA4, 0xA2, then 0xA3 with the indexes from
\* 1 on
ExpectedWrite(k) ==
    CASE k = 1 -> <<170>>
      [] k = 2 -> <<164>>
      [] k = 3 -> <<162>>
      [] OTHER -> <<163, k - 3>>

\* fetchData stands before a write that follows a read
BeforeNextWrite == pc \in {"descWrite", "countWrite", "recWrite", "finish"}

\* C19: the writes of a run are 0xAA, 0xA4, 0xA2 and then (0xA3, i) for
\* i = 1, 2, ... in this order, each once; before the next write the read
\* that follows a write has collected its bytes; a fetch that succeeds has
\* written N + 3 times; the index byte does not wrap for N up to 255.
C19_WritesInOrder ==
    /\ \A k \in 1..Len(writes) : writes[k] = ExpectedWrite(k)
    /\ BeforeNextWrite => (lastN > 0 /\ t >= size)
    /\ pc = "descWrite" => Len(writes) = 1
    /\ pc = "countWrite" => Len(writes) = 2
    /\ pc = "recWrite" => Len(writes) = 3 + i
    /\ (pc = "returned" /\ retErr = "nil") => Len(writes) = nRecords + 3
    /\ \A ix \in 0..254 : recordRequest(ix) = <<163, ix + 1>>

\* C19 witness: a fetch of two records has succeeded after the five writes.
C19_Witness ==
    /\ pc = "returned" /\ retErr = "nil"
    /\ nRecords = 2
    /\ writes = << <<170>>, <<164>>, <<162>>, <<163, 1>>, <<163, 2>> >>

\* getData has returned to fetchData
GetDataReturned ==
    /\ size > 0
    /\ pc \notin {"hsRead", "descRead", "countRead", "recRead", "exited"}

\* C20: getData returns when it has collected exactly size bytes: the count
\* it returns is size and it has taken no byte beyond size from the channel.
C20_ReturnsExactlySize ==
    GetDataReturned => t = size

\* ------------------------------------------------------------------------
\* Properties of the filters of main
\* ------------------------------------------------------------------------

\* a record's timestamp and a date as numbers of seconds that compare like
\* their fields, most significant first
RecordKey(m) == TimeKey(m) * 60
DateKey(d) == TimeKey(d) * 60 + d.Second

\* the record lies in the range the two dates give
InDateRange(m) ==
    /\ ~IsZero(startDate) => RecordKey(m) >= DateKey(startDate)
    /\ ~IsZero(endDate) => RecordKey(m) < DateKey(endDate)

\* C10: of a descending-chronological collection the date-range filter
\* keeps exactly the records at or after fromDate (when given) and before
\* toDate (when given).
C10_DateRangeExact ==
    fpc = "filtered" => mainItems = SelectSeq(loaded, InDateRange)

\* minutes since midnight
MinuteOfDay(h, m) == h * 60 + m

\* the record's time of day lies in the window of the two times
InTimeWindow(m) ==
    LET x  == MinuteOfDay(m.Hour, m.Minute)
        lo == MinuteOfDay(fromTime.hour, fromTime.minute)
        hi == MinuteOfDay(toTime.hour, toTime.minute)
    IN  IF fromTime.given /\ toTime.given /\ lo > hi
        THEN x >= lo \/ x <= hi
        ELSE (fromTime.given => x >= lo) /\ (toTime.given => x <= hi)

TimeFiltered == fpc \in {"timed", "limited"}

\* C11: the time-of-day filter keeps a record iff its minute of the day
\* lies in the window: from fromTime to toTime, both inclusive, each bound
\* only when given; and when both are given with fromTime after toTime, at
\* or after fromTime or at or before toTime.
C11_TimeWindow ==
    TimeFiltered => timed = SelectSeq(dated, InTimeWindow)

\* C11 witness: a window from 21:00 to 08:00 has kept the records of 23:59
\* and 00:00 and removed the record of 08:30.
C11_Witness ==
    /\ fpc = "timed"
    /\ fromTime = [given |-> TRUE, hour |-> 21, minute |-> 0]
    /\ toTime = [given |-> TRUE, hour |-> 8, minute |-> 0]
    /\ Len(dated) = 3
    /\ \E k \in 1..3 : dated[k].Hour = 8
    /\ Len(timed) = 2
    /\ \E k \in 1..2 : timed[k].Hour = 23
    /\ \E k \in 1..2 : timed[k].Hour = 0

\* C18: the limit comes after the date and time-of-day filters: with a
\* limit above 0 and more filtered records than the limit the output is the
\* first limit records of the filtered collection, otherwise the filtered
\* collection itself.
C18_LimitAfterFilters ==
    fpc = "limited" =>
        /\ timed = SelectSeq(dated, InTimeWindow)
        /\ IF limit > 0 /\ Len(timed) > limit
           THEN /\ Len(mainItems) = limit
                /\ \A k \in 1..limit : mainItems[k] = timed[k]
           ELSE mainItems = timed

\* C18 witness: a limit of 2 has cut three records that passed a time-of-day
\* filter, among more that were loaded, to the two most recent.
C18_Witness ==
    /\ fpc = "limited"
    /\ limit = 2
    /\ Len(timed) = 3
    /\ Len(mainItems) = 2
    /\ fromTime.given
    /\ TimeKey(mainItems[2]) > TimeKey(timed[3])

\* ------------------------------------------------------------------------
\* Properties of the statistics functions
\* ------------------------------------------------------------------------

\* the values of one field of the collection
Values(f) == [k \in 1..Len(statItems) |-> statItems[k][f]]

RECURSIVE Total(_)
Total(s) == IF s = <<>> THEN 0 ELSE Head(s) + Total(Tail(s))

\* the k-th of the values of s in ascending order
KthSmallest(s, k) ==
    CHOOSE v \in Range(s) :
        /\ Cardinality({ j \in 1..Len(s) : s[j] < v }) < k
        /\ k <= Cardinality({ j \in 1..Len(s) : s[j] <= v })

\* the mean of the values of s, halves rounded up
RoundedMean(s) ==
    CHOOSE a \in 0..255 :
        /\ 2 * Len(s) * a <= 2 * Total(s) + Len(s)
        /\ 2 * Total(s) + Len(s) < 2 * Len(s) * (a + 1)

Called(res) == res.err # "not called"

\* C12: for a non-empty collection average returns, for each of systolic,
\* diastolic and pulse, the mean rounded half-up, floor((2*sum + n) / (2*n));
\* the readings {120,80,60} and {130,90,70} give {125,85,65}.
C12_AverageRoundsHalfUp ==
    (Called(avgRes) /\ Len(statItems) > 0) =>
        /\ avgRes.err = "nil"
        /\ \A f \in StatFields :
               /\ 2 * Len(statItems) * avgRes.val[f]
                      <= 2 * Total(Values(f)) + Len(statItems)
               /\ 2 * Total(Values(f)) + Len(statItems)
                      < 2 * Len(statItems) * (avgRes.val[f] + 1)
        /\ ( /\ Values("Systolic") = <<120, 130>>
             /\ Values("Diastolic") = <<80, 90>>
             /\ Values("Pulse") = <<60, 70>> )
           => ( /\ avgRes.val.Systolic = 125
                /\ avgRes.val.Diastolic = 85
                /\ avgRes.val.Pulse = 65 )

\* C12 witness: average was called on two records whose diastolic mean is
\* 87.5 and whose pulse mean is 60.5, and returned 88 and 61.
C12_Witness ==
    /\ Called(avgRes)
    /\ Values("Diastolic") = <<80, 95>>
    /\ Values("Pulse") = <<60, 61>>
    /\ avgRes.val.Diastolic = 88
    /\ avgRes.val.Pulse = 61

\* C13: for a non-empty collection median returns per field the middle of
\* the field's values in ascending order when the count is odd and the
\* truncated mean of the two middle values when it is even, each field
\* sorted by itself; systolic 110,120,130 gives 120 and 110,120,130,140
\* gives 125.
C13_MedianPerField ==
    (Called(medRes) /\ Len(statItems) > 0) =>
        /\ medRes.err = "nil"
        /\ \A f \in StatFields :
               LET n == Len(statItems)
               IN  IF n % 2 = 1
                   THEN medRes.val[f] = KthSmallest(Values(f), (n + 1) \div 2)
                   ELSE medRes.val[f] =
                            (KthSmallest(Values(f), n \div 2)
                               + KthSmallest(Values(f), n \div 2 + 1)) \div 2
        /\ Range(Values("Systolic")) = {110, 120, 130}
               /\ Len(statItems) = 3 => medRes.val.Systolic = 120
        /\ Range(Values("Systolic")) = {110, 120, 130, 140}
               /\ Len(statItems) = 4 => medRes.val.Systolic = 125

\* C13 witness: median was called on four records that are in neither
\* systolic nor diastolic order; the systolic median 125 comes from two
\* records and the diastolic median 85 from the two others.
C13_Witness ==
    /\ Called(medRes)
    /\ Values("Systolic") = <<130, 110, 140, 120>>
    /\ Values("Diastolic") = <<90, 95, 70, 80>>
    /\ medRes.val.Systolic = 125
    /\ medRes.val.Diastolic = 85

\* C15: average and median return the empty-set error on zero records,
\* stdDeviation and avgAbsoluteDeviation the set-too-small error on zero
\* records or one; a function returns a value without an error only when
\* it was given enough records.
C15_TooSmallIsAnError ==
    /\ Called(avgRes) =>
           IF Len(statItems) = 0
           THEN avgRes.err = "cannot compute average: empty set"
           ELSE avgRes.err = "nil"
    /\ Called(medRes) =>
           IF Len(statItems) = 0
           THEN medRes.err = "cannot compute average: empty set"
           ELSE medRes.err = "nil"
    /\ Called(devRes) =>
           IF Len(statItems) <= 1
           THEN devRes.err = "cannot compute deviation: set too small"
           ELSE devRes.err = "nil"
    /\ Called(aadRes) =>
           IF Len(statItems) <= 1
           THEN aadRes.err = "cannot compute deviation: set too small"
           ELSE aadRes.err = "nil"

\* C15 witness: on one record average and median returned a value, and
\* stdDeviation and avgAbsoluteDeviation the set-too-small error.
C15_Witness ==
    /\ Len(statItems) = 1
    /\ avgRes.err = "nil" /\ medRes.err = "nil"
    /\ devRes.err = "cannot compute deviation: set too small"
    /\ aadRes.err = "cannot compute deviation: set too small"

\* the sum of the squared distances of the values of s from a
SquaresFrom(s, a) == Total([k \in 1..Len(s) |-> (s[k] - a) * (s[k] - a)])

\* C16: for two records or more stdDeviation returns per field the integer
\* part of the square root of the sum of the squared deviations from the
\* rounded average, divided by the record count N.
C16_PopulationDeviation ==
    (Called(devRes) /\ Len(statItems) >= 2) =>
        /\ devRes.err = "nil"
        /\ \A f \in StatFields :
               LET n  == Len(statItems)
                   ss == SquaresFrom(Values(f), RoundedMean(Values(f)))
                   r  == devRes.val[f]
               IN  /\ r >= 0
                   /\ r * r * n <= ss
                   /\ ss < (r + 1) * (r + 1) * n

\* C16 witness: stdDeviation was called on the systolic values 120 and 130,
\* whose squared deviations from 125 sum to 50, and returned 5, the root of
\* 50 / 2, where 50 / 1 would give 7.
C16_Witness ==
    /\ Called(devRes)
    /\ Values("Systolic") = <<120, 130>>
    /\ devRes.val.Systolic = 5

\* ------------------------------------------------------------------------
\* Properties of WHOClass
\* ------------------------------------------------------------------------

\* the rows of the table: the systolic and the diastolic limit
WHORows ==
    << <<120, 80>>, <<130, 85>>, <<140, 90>>, <<160, 100>>, <<180, 110>> >>

\* the rows below whose two limits the measurement lies
MatchingRows ==
    { k \in 1..Len(WHORows) :
          who.Systolic < WHORows[k][1] /\ who.Diastolic < WHORows[k][2] }

\* the name of the first matching row, of the last category without one
FirstMatch ==
    IF MatchingRows = {} THEN "Severe Hypertension"
    ELSE LET k == CHOOSE r \in MatchingRows : \A q \in MatchingRows : r <= q
         IN  << "Optimal", "Normal", "High-Normal", "Mild Hypertension",
                "Moderate Hypertension" >>[k]

\* C14: WHOClass gives every measurement the first row of the table that
\* matches on both values, Severe when none does; 145/85 is Mild
\* Hypertension with the Isolated Systolic Hypertension flag.
C14_FirstMatchingRow ==
    cpc = "classified" =>
        /\ whoRes.class \in 0..5
        /\ WHOPressureClassification[whoRes.class + 1] = FirstMatch
        /\ (who.Systolic = 145 /\ who.Diastolic = 85)
               => ( /\ WHOPressureClassification[whoRes.class + 1]
                           = "Mild Hypertension"
                    /\ whoRes.flag = IsolatedSystolicHypertension )

\* C14 witness: 145/85 is classified.
C14_Witness ==
    /\ cpc = "classified"
    /\ who.Systolic = 145 /\ who.Diastolic = 85
    /\ whoRes = [class |-> 3, flag |-> 1]

\* ------------------------------------------------------------------------
\* Termination of fetchData
\* ------------------------------------------------------------------------

\* C21: when every write succeeds and every read delivers bytes, fetchData
\* ends with the channel closed: once it has returned without a failure of
\* the channel, the port it opened is closed.
C21_EndsWithChannelClosed ==
    (pc = "returned" /\ port # "none" /\ ioError = "none") => port = "closed"

\* ------------------------------------------------------------------------
\* Ties in mergeItems
\* ------------------------------------------------------------------------

\* the place of a record in a list that holds it
Position(s, m) == CHOOSE k \in 1..Len(s) : s[k] = m

\* C22 as stated: a record of newItems stands in the result before every
\* different record of oldItems that has its timestamp.
C22_NewBeforeOld ==
    mpc = "merged" =>
        \A a \in Range(argNew), b \in Range(argOld) :
            (a # b /\ TimeKey(a) = TimeKey(b)) =>
                Position(result.elems, a) < Position(result.elems, b)

\* C22 amended: a record of newItems stands in the result before every
\* different record of its timestamp that oldItems holds and newItems does
\* not.
C22_NewBeforeOnlyOld ==
    mpc = "merged" =>
        \A a \in Range(argNew), b \in Range(argOld) \ Range(argNew) :
            (a # b /\ TimeKey(a) = TimeKey(b)) =>
                Position(result.elems, a) < Position(result.elems, b)

\* C22 witness: oldItems held a record of the timestamp of a different
\* record of newItems, beside a later record, and the result has the record
\* of newItems first of the two.
C22_Witness ==
    /\ mpc = "merged"
    /\ Len(argOld) = 2
    /\ \E a \in Range(argNew), b \in Range(argOld) \ Range(argNew) :
          /\ a # b /\ TimeKey(a) = TimeKey(b)
          /\ Position(result.elems, a) < Position(result.elems, b)
          /\ Position(result.elems, a) > 1

\* ------------------------------------------------------------------------
\* Properties of loadFromJSONFiles
\* ------------------------------------------------------------------------

\* the records of all files named
AllFileRecords ==
    UNION { Range(filenames[k].records) : k \in 1..Len(filenames) }

\* C23: whatever files are named and in whatever order, the collection
\* loadFromJSONFiles returns is descending, holds no record twice and holds
\* exactly the records of the files; as a set it is the union of the files'
\* records, which is the same for every order of the names.
C23_LoadIsUnionOfFiles ==
    (lpc = "returned" /\ loadErr = "nil") =>
        /\ Descending(loadItems)
        /\ NoDuplicates(loadItems)
        /\ Range(loadItems) = AllFileRecords
        /\ Len(loadItems) = Cardinality(AllFileRecords)

\* C23 witness: three files were loaded, the first not the one with the
\* latest record, two of them sharing a record, and the four records came
\* out.
C23_Witness ==
    /\ lpc = "returned" /\ loadErr = "nil"
    /\ Len(filenames) = 3
    /\ Len(loadItems) = 4
    /\ Len(filenames[1].records) = 2
    /\ \E m \in Range(filenames[1].records) : m \in Range(filenames[3].records)
    /\ loadItems[1] \notin Range(filenames[1].records)

\* ------------------------------------------------------------------------
\* Properties of displayWHOClassStats
\* ------------------------------------------------------------------------

\* C24: the average classification displayWHOClassStats computes for a
\* collection that is not empty is one of 0..5, and the label of that
\* category is printed.
C24_AverageClassInRange ==
    dpc # "call" =>
        /\ avgIndex \in 0..5
        /\ dpc = "displayed"
        /\ avgLabel = WHOPressureClassification[avgIndex + 1]

\* ------------------------------------------------------------------------
\* Properties of the flag and of the category of WHOClass
\* ------------------------------------------------------------------------

\* the measurement of two values
Pressure(sys, dia) ==
    [zeroMeasurement EXCEPT !.Systolic = sys, !.Diastolic = dia]

\* the flag is set for the measurement classified exactly when its systolic
\* value is 140 or more and its diastolic value below 90
FlagExact ==
    cpc = "classified" =>
        /\ whoRes.flag \in {0, 1}
        /\ whoRes.flag = 1 <=> (who.Systolic >= 140 /\ who.Diastolic < 90)

\* some measurement gets the category c together with the flag
FlagPossibleWith(c) ==
    \E sys \in 0..300, dia \in 0..200 :
        WHOClass(Pressure(sys, dia)) = [class |-> c, flag |-> 1]

\* C25 as stated: the flag is set exactly when systolic >= 140 and
\* diastolic < 90, and measurements exist that get it together with
\* High-Normal, with Mild Hypertension and with the higher categories.
C25_FlagWithHighNormal ==
    /\ FlagExact
    /\ \A c \in 2..5 : FlagPossibleWith(c)

\* C25 amended: the flag is set exactly when systolic >= 140 and
\* diastolic < 90; it comes with Mild Hypertension and with the higher
\* categories and never with High-Normal or a lower one.
C25_FlagFromMildOn ==
    /\ FlagExact
    /\ cpc = "classified" =>
           (whoRes.flag = 1 => whoRes.class >= BPMildHypertension)
    /\ \A c \in 3..5 :
           \E sys \in SystolicValues, dia \in DiastolicValues :
               WHOClass(Pressure(sys, dia)) = [class |-> c, flag |-> 1]
    /\ \A c \in 0..2 :
           \A sys \in SystolicValues, dia \in DiastolicValues :
               WHOClass(Pressure(sys, dia)) # [class |-> c, flag |-> 1]

\* C25 witness: 140/89, the lowest systolic value with the flag beside the
\* highest diastolic value with it, is classified Mild Hypertension with
\* the flag.
C25_Witness ==
    /\ cpc = "classified"
    /\ who.Systolic = 140 /\ who.Diastolic = 89
    /\ whoRes.class = 3 /\ whoRes.flag = 1

\* the category a value has by itself: the number of limits it has reached
CategoryOf(x, limits) == Cardinality({ l \in limits : x >= l })

SystolicCategory(x) == CategoryOf(x, {120, 130, 140, 160, 180})
DiastolicCategory(x) == CategoryOf(x, {80, 85, 90, 100, 110})

Highest(a, b) == IF a >= b THEN a ELSE b

\* C26: the category WHOClass returns is the higher of the category of the
\* systolic value alone and of the diastolic value alone, so that no
\* measurement with values at least as high gets a lower category.
C26_CategoryIsMaximum ==
    cpc = "classified" =>
        /\ whoRes.class = Highest(SystolicCategory(who.Systolic),
                                  DiastolicCategory(who.Diastolic))
        /\ \A sys \in SystolicValues, dia \in DiastolicValues :
               (sys >= who.Systolic /\ dia >= who.Diastolic) =>
                   WHOClass(Pressure(sys, dia)).class >= whoRes.class

\* C26 witness: 100/110 is classified Severe Hypertension, the category of
\* its diastolic value, while its systolic value alone is Optimal.
C26_Witness ==
    /\ cpc = "classified"
    /\ who.Systolic = 100 /\ who.Diastolic = 110
    /\ whoRes.class = 5
    /\ SystolicCategory(who.Systolic) = 0

====
